---------------------------- MODULE Spec2Model ----------------------------
(***************************************************************************)
(* Model of the ledger layer of src/database.py: Database.ban_user,        *)
(* unban_user, modify_user_balance and create_transaction running on       *)
(* separate connections of one SQLite store file.                          *)
(*                                                                         *)
(* Each operation runs on its own connection (get_connection, one per      *)
(* call), so calls made from different threads or processes interleave at  *)
(* the granularity of the SQL statements they execute.  The store follows  *)
(* SQLite in WAL mode (get_connection sets journal_mode=WAL): readers see  *)
(* the last committed image, there is one writer at a time, "BEGIN         *)
(* TRANSACTION" is deferred (no lock until the first statement), a read    *)
(* transaction cannot be upgraded to a write transaction while another     *)
(* connection holds the write lock or after another connection committed   *)
(* (SQLITE_BUSY / SQLITE_BUSY_SNAPSHOT, raised without waiting), and a     *)
(* transaction whose first statement is a write waits for the write lock   *)
(* up to busy_timeout.                                                     *)
(*                                                                         *)
(* Money.  Every amount of the model is an integer written                 *)
(* hi * 2^53 + lo with |lo| small, kept as the record [hi, lo]: 2^53 is    *)
(* the first magnitude at which the IEEE double behind SQLite's REAL       *)
(* columns stops representing every integer.  Decimal arithmetic           *)
(* (Python's decimal.Decimal) is exact on these records; storing into a    *)
(* REAL column rounds (ToReal).                                            *)
(*                                                                         *)
(* Further specifications over the same variables: SpecRace (two           *)
(* concurrent balance changes), SpecAdmin (the administrative operations   *)
(* called with admin_id None), SpecAcquire (the retry loop of              *)
(* get_connection under the query operations), SpecBoot (Database(),       *)
(* the singleton and init_db with its backup), SpecLookup                  *)
(* (get_user_id_by_username), SpecLifecycle (the status of transaction     *)
(* rows) and SpecConfig (the update operations and reload_config of        *)
(* src/config.py).                                                         *)
(***************************************************************************)
EXTENDS Integers, Sequences, FiniteSets, TLC

VARIABLES
    db,       \* committed image of the store: users, balance_history, admin_logs, transactions
    wal,      \* image seen by the connection holding the write lock (= db when none)
    writer,   \* the workers whose connection holds the write lock: none or one
    pc,       \* per worker: the statement of the operation it is about to execute
    call,     \* per worker: the operation called and its arguments
    loc,      \* per worker: the locals current_balance, new_balance
    txn,      \* per worker: state of its connection's transaction
    stale,    \* per worker: another connection committed since its read snapshot
    conn,     \* per worker: its connection is open
    ret,      \* per worker: outcome of its last call
    path,     \* history variable, per worker: the exit its last call took, and
              \* whether it held uncommitted writes when it left
    applied,  \* history variable: the calls that returned True, in order of return
    initial,  \* history variable: the users table at the start
    ncalls,   \* history variable: number of calls made
    gc,       \* per worker: progress of a get_connection call (attempt, waits, handles)
    boot,     \* the process start: the store file, its backups, the Database singleton
    look,     \* the users' handles and the last get_user_id_by_username call
    cfg       \* Config: the .env file, os.environ and the attributes of the instance

vars == <<db, wal, writer, pc, call, loc, txn, stale, conn, ret, path, applied, initial, ncalls, gc, boot, look, cfg>>

-----------------------------------------------------------------------------
(* Bounds of the model *)

MaxCalls == 3

(* Two concurrent callers, each with its own connection *)
Workers == {1, 2}

(* Inputs *)
ExistingIds == {1001}
UserArgs == {1001, 1002}
AdminArgs == {1}
TxIdArgs == {"tx-abc"}

M(h, l) == [hi |-> h, lo |-> l]
Zero == M(0, 0)
AmountArgs == {M(0, 10), M(0, -10), M(1, 1)}
TxAmountArgs == {M(0, 10), M(1, 1)}
InitialBalances == {M(0, 0), M(0, 20)}
InitialStatuses == {"active", "banned"}

None == "None"

(* Python's None passed as an admin id: SQL NULL *)
NullAdmin == 0

-----------------------------------------------------------------------------
(* Decimal arithmetic and the REAL column *)

Add(a, b) == M(a.hi + b.hi, a.lo + b.lo)

(* Faulty variant: the sign test never fires *)
IsNegative_Never(m) == FALSE

IsNegative(m) == m.hi < 0 \/ (m.hi = 0 /\ m.lo < 0)

Neg(m) == M(-m.hi, -m.lo)

RECURSIVE Spacing(_)
Spacing(h) == IF h <= 0 THEN 1 ELSE IF h = 1 THEN 2 ELSE 2 * Spacing(h \div 2)

RoundHalfEven(l, s) ==
    LET r == l % s
        down == l - r
        up == down + s
    IN  IF r = 0 THEN l
        ELSE IF 2 * r < s THEN down
        ELSE IF 2 * r > s THEN up
        ELSE IF down % (2 * s) = 0 THEN down ELSE up

ToRealPos(m) ==
    LET binade == IF m.lo < 0 THEN m.hi - 1 ELSE m.hi
    IN  M(m.hi, RoundHalfEven(m.lo, Spacing(binade)))

ToReal(m) == IF IsNegative(m) THEN Neg(ToRealPos(Neg(m))) ELSE ToRealPos(m)

DecimalOfReal(x) == x


-----------------------------------------------------------------------------
(* The store *)

UserRow(bal, st) == [balance |-> bal, status |-> st]

TxRow(uid, amt) == [user_id |-> uid, amount |-> ToReal(amt), type |-> "deposit", status |-> "pending"]

HistoryRow(c, l) ==
    [user_id |-> c.user_id,
     old_balance |-> ToReal(l.cur),
     new_balance |-> ToReal(l.new),
     change_amount |-> ToReal(c.amount),
     transaction_type |-> IF ~IsNegative(c.amount) /\ c.amount # Zero THEN "credit" ELSE "debit",
     admin_id |-> c.admin_id]

LogRow(admin, action, text, uid, amt) ==
    [admin_id |-> admin, action |-> action,
     details |-> [text |-> text, user |-> uid, amount |-> amt],
     target_user_id |-> uid]

(* Faulty variant: the negative-balance guard is missing *)
PreventNegative_Off(new) == FALSE

(* if new_balance < 0 *)
PreventNegative(new) == IsNegative(new)

(* CHECK (balance >= 0) of the users table *)
BalanceCheck(bal) == ~IsNegative(bal)

(* admin_id INTEGER NOT NULL of the admin_logs table *)
(* Faulty variant: the column is declared without NOT NULL *)
AdminNotNull_Nullable(admin) == TRUE

AdminNotNull(admin) == admin # NullAdmin

(* The image a statement of worker w operates on *)
Image(w) == IF writer = {w} THEN wal ELSE db

(* Another connection holds the write lock *)
LockedByOther(w) == writer # {} /\ writer # {w}

(* A write statement of w cannot get the write lock now and raises "database is
   locked" at once: w holds a read snapshot (it executed a SELECT in this
   transaction) and either another connection is writing or one committed since. *)
UpgradeBusy(w) == txn[w] = "read" /\ (LockedByOther(w) \/ stale[w])

(* A write statement of w takes effect: inside a transaction it goes to the
   writer's image and w holds the write lock; outside one it is committed at once. *)
ExecWrite(w, img) ==
    IF txn[w] = "none"
    THEN /\ db' = img
         /\ wal' = img
         /\ writer' = writer
         /\ stale' = [v \in Workers |-> IF v # w /\ txn[v] = "read" THEN TRUE ELSE stale[v]]
         /\ txn' = txn
    ELSE /\ db' = db
         /\ wal' = img
         /\ writer' = {w}
         /\ stale' = stale
         /\ txn' = [txn EXCEPT ![w] = "write"]

NoLocals == [cur |-> Zero, new |-> Zero]

NoPath == [exit |-> "none", wrote |-> FALSE]

NoCall == [op |-> "none", user_id |-> 1001, amount |-> Zero, admin_id |-> 1, tx_id |-> None]

(* return r, then the finally clause: conn.close(), which ends any transaction
   the connection still holds *)
Return(w, r, why) ==
    /\ pc' = [pc EXCEPT ![w] = "idle"]
    /\ ret' = [ret EXCEPT ![w] = r]
    /\ conn' = [conn EXCEPT ![w] = FALSE]
    /\ loc' = [loc EXCEPT ![w] = NoLocals]
    /\ path' = [path EXCEPT ![w] = [exit |-> why, wrote |-> writer = {w}]]
    /\ call' = [call EXCEPT ![w] = NoCall]

(* c.execute("ROLLBACK") and close: the connection's transaction ends, its
   uncommitted writes are dropped and the write lock is released *)
EndTransaction(w) ==
    /\ txn' = [txn EXCEPT ![w] = "none"]
    /\ stale' = [stale EXCEPT ![w] = FALSE]
    /\ writer' = writer \ {w}
    /\ wal' = IF writer = {w} THEN db ELSE wal
    /\ db' = db

(* except Exception: if conn: c.execute("ROLLBACK"); return False.  ROLLBACK
   itself raises when the connection has no active transaction, and that
   exception leaves the operation. *)
ExceptHandler(w, active, why) ==
    /\ EndTransaction(w)
    /\ Return(w, IF conn[w] /\ ~active THEN "raised" ELSE "False", why)
    /\ UNCHANGED <<applied, initial, ncalls, gc, boot, look, cfg>>

(* c.execute("ROLLBACK"); return False on the not-applied paths *)
RollbackReturnFalse(w, why) ==
    IF txn[w] = "none"
    THEN ExceptHandler(w, FALSE, why)
    ELSE /\ EndTransaction(w)
         /\ Return(w, "False", why)
         /\ UNCHANGED <<applied, initial, ncalls, gc, boot, look, cfg>>

-----------------------------------------------------------------------------
(* Progress of one get_connection call and state of the process start *)

(* for i in range(5) *)
Attempts == 5

(* No get_connection call in progress.  st is the position in the loop, i the
   loop variable, attempts / failed / sleeps count the sqlite3.connect calls,
   the attempts that raised and the time.sleep(1) calls of the current call,
   err is the exception of the last failed attempt, open counts the handles
   sqlite3.connect returned that nothing has closed. *)
GcIdle ==
    [st |-> "idle", i |-> 0, attempts |-> 0, failed |-> 0, sleeps |-> 0, open |-> 0,
     err |-> "none"]

(* The process after a successful start: the store file and its schema exist,
   Database._instance is set and init_db has completed. *)
Booted ==
    [file |-> TRUE, schema |-> TRUE, backups |-> {}, now |-> 0,
     instance |-> TRUE, initialized |-> TRUE, ready |-> TRUE,
     step |-> "idle", entry |-> "none", hadFile |-> FALSE, backedUp |-> FALSE,
     connBound |-> FALSE, connOpen |-> FALSE,
     exc |-> "none", failed |-> "none", stmts |-> 0, result |-> "none",
     nboots |-> 0, completed |-> 1,
     constructs |-> 1, inits |-> 1, objects |-> 1]

-----------------------------------------------------------------------------
(* Handles (users.username) and get_user_id_by_username.  A handle is a
   sequence of characters; a query is a handle as a caller types it, with or
   without leading @ and in any letter case. *)

MaxHandleLen == 2

Letters == {"a", "A", "b", "B"}
At == "@"

(* The result None of the lookup *)
NoUser == 0

SeqsUpTo(S, n) == UNION {[1..k -> S] : k \in 1..n}

Handles == SeqsUpTo(Letters, MaxHandleLen)
Queries == SeqsUpTo(Letters \cup {At}, MaxHandleLen + 1)

Lower(c) == CASE c = "A" -> "a" [] c = "B" -> "b" [] OTHER -> c
LowerStr(s) == [i \in DOMAIN s |-> Lower(s[i])]

(* str.lstrip('@'): every leading @ is removed *)
RECURSIVE Lstrip(_)
Lstrip(s) == IF s # << >> /\ Head(s) = At THEN Lstrip(Tail(s)) ELSE s

MinOf(S) == CHOOSE x \in S : \A y \in S : x <= y

(* WHERE username = ?: the column has the default BINARY collation *)
Matches(stored, arg) == stored = arg

(* username.lstrip('@'); SELECT user_id FROM users WHERE username = ?;
   fetchone: the first matching row, or None *)
GetUserIdByUsername(names, username) ==
    LET arg == Lstrip(username)
        found == {u \in DOMAIN names : Matches(names[u], arg)}
    IN  IF found = {} THEN NoUser ELSE MinOf(found)

(* No lookup made yet, over the given handles *)
NoLookup(names) ==
    [names |-> names, step |-> "idle", arg |-> << >>, result |-> NoUser, failed |-> FALSE,
     done |-> FALSE]

-----------------------------------------------------------------------------
(* Config (src/config.py): the texts of the .env file and of os.environ, and
   the conversions between them and the attributes of the instance.

   A rate text is a decimal numeral coef * 10^-exp, or a text that is no
   numeral (valid = FALSE), possibly with white space around it (pad).  A
   list text is the sequence of its comma-separated fields, each a body with
   or without white space around it; the empty text is one empty field, as
   ''.split(',') is ['']. *)

MaxUpdates == 2
MaxNumbers == 2

RateKeys == {"USD_RATE", "USDT_RATE"}
RawListKeys == {"MTN_CASH_NUMBERS", "SHAMCASH_NUMBERS"}
ListKeys == {"SYRIATEL_CASH_NUMBERS"} \cup RawListKeys
WalletKeys == {"USDT_WALLET_COINEX"}
Keys == RateKeys \cup ListKeys \cup WalletKeys

(* The order in which _load_env_vars assigns the attributes *)
LoadOrder ==
    <<"USD_RATE", "USDT_RATE", "SYRIATEL_CASH_NUMBERS", "USDT_WALLET_COINEX",
      "MTN_CASH_NUMBERS", "SHAMCASH_NUMBERS">>

Rate(c, e, p) == [valid |-> TRUE, coef |-> c, exp |-> e, pad |-> p]
NotANumeral == [valid |-> FALSE, coef |-> 0, exp |-> 0, pad |-> FALSE]
Field(b, p) == [body |-> b, pad |-> p]
Blank == Field("", FALSE)

(* os.getenv defaults: '10000' for the rates, '' for the lists, None otherwise *)
DefaultText(k) ==
    IF k \in RateKeys THEN Rate(10000, 0, FALSE)
    ELSE IF k \in ListKeys THEN <<Blank>>
    ELSE Blank

Entry(t) == [present |-> TRUE, text |-> t]
Absent(k) == [present |-> FALSE, text |-> DefaultText(k)]

(* str.strip *)
Strip(f) == [f EXCEPT !.pad = FALSE]
StripAll(fs) == [i \in DOMAIN fs |-> Strip(fs[i])]
NonBlank(fs) == SelectSeq(fs, LAMBDA f : f.body # "")

(* ','.join: no field gives the empty text *)
Join(fs) == IF fs = << >> THEN <<Blank>> ELSE fs

(* text.split(',') *)
Split(t) == t

Pow10(n) == 10 ^ n

(* Decimal(text): the value of the numeral, white space around it ignored.
   Defined for the numerals only; any other text raises InvalidOperation. *)
DecimalOf(t) == [coef |-> t.coef, exp |-> t.exp]
DecimalEq(a, b) == a.coef * Pow10(b.exp) = b.coef * Pow10(a.exp)

(* python-dotenv reading KEY=value: the white space around an unquoted value
   is dropped.  For a list text this strips the outer sides of its first and
   last field, here their strip, which the loaders apply to every field anyway. *)
DotenvValue(k, t) ==
    IF k \in ListKeys
    THEN [i \in DOMAIN t |-> IF i \in {1, Len(t)} THEN Strip(t[i]) ELSE t[i]]
    ELSE Strip(t)

(* load_dotenv(override=True): every key of the file replaces the environment's *)
LoadDotenv(c) ==
    IF ~c.exists THEN c.env
    ELSE [k \in Keys |-> IF c.file[k].present
                         THEN Entry(DotenvValue(k, c.file[k].text))
                         ELSE c.env[k]]

Getenv(env, k) == IF env[k].present THEN env[k].text ELSE DefaultText(k)

(* The attribute _load_env_vars assigns for key k *)
LoadValue(env, k) ==
    IF k \in RateKeys THEN DecimalOf(Getenv(env, k))
    ELSE IF k = "SYRIATEL_CASH_NUMBERS" THEN NonBlank(StripAll(Split(Getenv(env, k))))
    ELSE IF k \in RawListKeys THEN StripAll(Split(Getenv(env, k)))
    ELSE env[k]

(* Decimal(os.getenv(k)) raises on this environment *)
LoadRaises(env, k) == k \in RateKeys /\ ~Getenv(env, k).valid

(* Index in LoadOrder of the first assignment that raises, or past the end *)
FirstRaise(env) ==
    LET bad == {i \in DOMAIN LoadOrder : LoadRaises(env, LoadOrder[i])}
    IN  IF bad = {} THEN Len(LoadOrder) + 1 ELSE CHOOSE i \in bad : \A j \in bad : i <= j

(* _load_env_vars: the attributes assigned before the first exception *)
LoadEnvVars(mem, env) ==
    [k \in Keys |->
        IF \E i \in DOMAIN LoadOrder : LoadOrder[i] = k /\ i < FirstRaise(env)
        THEN LoadValue(env, k) ELSE mem[k]]

(* The attributes compared as Python compares them *)
SameValue(k, a, b) == IF k \in RateKeys THEN DecimalEq(a, b) ELSE a = b

NoUpdate == [op |-> "none", key |-> "none", result |-> "none"]

(* Config() at import over a .env file that holds every key *)
ConfigLoaded ==
    LET env == [k \in Keys |->
                   IF k \in RateKeys THEN Entry(Rate(10000, 0, FALSE))
                   ELSE IF k \in ListKeys THEN Entry(<<Field("0999", FALSE)>>)
                   ELSE Entry(Field("TAddr", FALSE))]
    IN  [exists |-> TRUE, file |-> env, env |-> env,
         mem |-> [k \in Keys |-> LoadValue(env, k)],
         last |-> NoUpdate, n |-> 0]

-----------------------------------------------------------------------------
(* Initial state: the store after init_db, holding the accounts that exist *)

Init ==
    /\ \E bal \in [ExistingIds -> InitialBalances], st \in [ExistingIds -> InitialStatuses] :
          /\ db = [users |-> [u \in ExistingIds |-> UserRow(bal[u], st[u])],
                   history |-> << >>, logs |-> << >>, txs |-> << >>]
          /\ initial = [u \in ExistingIds |-> UserRow(bal[u], st[u])]
    /\ wal = db
    /\ writer = {}
    /\ pc = [w \in Workers |-> "idle"]
    /\ call = [w \in Workers |-> NoCall]
    /\ loc = [w \in Workers |-> NoLocals]
    /\ txn = [w \in Workers |-> "none"]
    /\ stale = [w \in Workers |-> FALSE]
    /\ conn = [w \in Workers |-> FALSE]
    /\ ret = [w \in Workers |-> "none"]
    /\ path = [w \in Workers |-> NoPath]
    /\ applied = << >>
    /\ ncalls = 0
    /\ gc = [w \in Workers |-> GcIdle]
    /\ look = NoLookup([u \in ExistingIds |-> <<"a">>])
    /\ cfg = ConfigLoaded
    /\ boot = Booted

-----------------------------------------------------------------------------
(* A caller invokes an operation *)

CallArgs ==
    {[op |-> "modify", user_id |-> u, amount |-> a, admin_id |-> ad, tx_id |-> None] :
        u \in UserArgs, a \in AmountArgs, ad \in AdminArgs}
    \cup {[op |-> o, user_id |-> u, amount |-> Zero, admin_id |-> ad, tx_id |-> None] :
        o \in {"ban", "unban"}, u \in UserArgs, ad \in AdminArgs}
    \cup {[op |-> "create", user_id |-> u, amount |-> a, admin_id |-> 1, tx_id |-> t] :
        u \in UserArgs, a \in TxAmountArgs, t \in TxIdArgs}

(* The amounts stay below 2^54, where every stored REAL reads back as the exact
   decimal of its value (DecimalOfReal) *)
InRange(c) ==
    (c.op = "modify" /\ c.amount.hi > 0) =>
        /\ \A u \in ExistingIds : db.users[u].balance.hi = 0 /\ wal.users[u].balance.hi = 0
        /\ \A v \in Workers : (pc[v] # "idle" /\ call[v].op = "modify") => call[v].amount.hi = 0

Call(w) ==
    /\ pc[w] = "idle"
    /\ ncalls < MaxCalls
    /\ \E c \in CallArgs :
          /\ InRange(c)
          /\ call' = [call EXCEPT ![w] = c]
    /\ pc' = [pc EXCEPT ![w] = "connect"]
    /\ ret' = [ret EXCEPT ![w] = "none"]
    /\ path' = [path EXCEPT ![w] = NoPath]
    /\ ncalls' = ncalls + 1
    /\ UNCHANGED <<db, wal, writer, loc, txn, stale, conn, applied, initial, gc, boot, look, cfg>>

(* get_connection returns a connection *)
GetConnection(w) ==
    /\ pc[w] = "connect"
    /\ conn' = [conn EXCEPT ![w] = TRUE]
    /\ pc' = [pc EXCEPT ![w] = "begin"]
    /\ UNCHANGED <<db, wal, writer, call, loc, txn, stale, ret, path, applied, initial, ncalls, gc, boot, look, cfg>>

(* get_connection raises after its last attempt: conn is None in the handler *)
GetConnectionFails(w) ==
    /\ pc[w] = "connect"
    /\ ExceptHandler(w, FALSE, "connect_failed")

FirstStatement(op) ==
    CASE op = "modify" -> "select"
      [] op = "ban" -> "update_status"
      [] op = "unban" -> "update_status"
      [] op = "create" -> "insert_tx"

(* Faulty variant: BEGIN TRANSACTION is missing, so every statement commits by itself
   (the connection is in autocommit mode, isolation_level=None) *)
BeginTransaction_Missing(w) ==
    /\ pc[w] = "begin"
    /\ pc' = [pc EXCEPT ![w] = FirstStatement(call[w].op)]
    /\ UNCHANGED <<db, wal, writer, call, loc, txn, stale, conn, ret, path, applied, initial, ncalls, gc, boot, look, cfg>>

(* c.execute("BEGIN TRANSACTION"): a deferred transaction, no lock yet *)
BeginTransaction(w) ==
    /\ pc[w] = "begin"
    /\ txn' = [txn EXCEPT ![w] = "open"]
    /\ pc' = [pc EXCEPT ![w] = FirstStatement(call[w].op)]
    /\ UNCHANGED <<db, wal, writer, call, loc, stale, conn, ret, path, applied, initial, ncalls, gc, boot, look, cfg>>


-----------------------------------------------------------------------------
(* modify_user_balance *)

(* SELECT balance FROM users WHERE user_id = ?, the not-found return and the
   negative-balance return.  The SELECT opens the connection's read snapshot. *)
ModifySelect(w) ==
    /\ pc[w] = "select"
    /\ LET c == call[w]
           users == Image(w).users
       IN  IF c.user_id \notin DOMAIN users
           THEN RollbackReturnFalse(w, "not_found")
           ELSE LET cur == DecimalOfReal(users[c.user_id].balance)
                    new == Add(cur, c.amount)
                IN  IF PreventNegative(new)
                    THEN RollbackReturnFalse(w, "insufficient")
                    ELSE /\ loc' = [loc EXCEPT ![w] = [cur |-> cur, new |-> new]]
                         /\ pc' = [pc EXCEPT ![w] = "update"]
                         /\ txn' = [txn EXCEPT ![w] = IF @ = "open" THEN "read" ELSE @]
                         /\ stale' = [stale EXCEPT ![w] = FALSE]
                         /\ UNCHANGED <<db, wal, writer, call, conn, ret, path, applied, initial, ncalls, gc, boot, look, cfg>>

(* UPDATE users SET balance = ? WHERE user_id = ? *)
ModifyUpdate(w) ==
    /\ pc[w] = "update"
    /\ ~(txn[w] # "read" /\ LockedByOther(w))
    /\ LET c == call[w]
           img == Image(w)
           stored == ToReal(loc[w].new)
       IN  IF UpgradeBusy(w) \/ ~BalanceCheck(stored)
           THEN ExceptHandler(w, txn[w] # "none", IF UpgradeBusy(w) THEN "busy" ELSE "integrity")
           ELSE /\ ExecWrite(w, [img EXCEPT !.users[c.user_id].balance = stored])
                /\ pc' = [pc EXCEPT ![w] = "insert_history"]
                /\ UNCHANGED <<call, loc, conn, ret, path, applied, initial, ncalls, gc, boot, look, cfg>>

(* INSERT INTO balance_history *)
(* Faulty variant: INSERT OR REPLACE keyed by the account, so the account's earlier
   history row is replaced by the new one *)
ModifyInsertHistory_Replace(w) ==
    /\ pc[w] = "insert_history"
    /\ ~LockedByOther(w)
    /\ ExecWrite(w, [Image(w) EXCEPT !.history =
                        Append(SelectSeq(@, LAMBDA r : r.user_id # call[w].user_id),
                               HistoryRow(call[w], loc[w]))])
    /\ pc' = [pc EXCEPT ![w] = "insert_log"]
    /\ UNCHANGED <<call, loc, conn, ret, path, applied, initial, ncalls, gc, boot, look, cfg>>

(* INSERT INTO balance_history *)
ModifyInsertHistory(w) ==
    /\ pc[w] = "insert_history"
    /\ ~LockedByOther(w)
    /\ ExecWrite(w, [Image(w) EXCEPT !.history = Append(@, HistoryRow(call[w], loc[w]))])
    /\ pc' = [pc EXCEPT ![w] = "insert_log"]
    /\ UNCHANGED <<call, loc, conn, ret, path, applied, initial, ncalls, gc, boot, look, cfg>>


(* An INSERT INTO admin_logs of worker w *)
InsertLog(w, row) ==
    /\ ~LockedByOther(w)
    /\ IF AdminNotNull(row.admin_id)
       THEN /\ ExecWrite(w, [Image(w) EXCEPT !.logs = Append(@, row)])
            /\ pc' = [pc EXCEPT ![w] = "commit"]
            /\ UNCHANGED <<call, loc, conn, ret, path, applied, initial, ncalls, gc, boot, look, cfg>>
       ELSE ExceptHandler(w, txn[w] # "none", "integrity")

(* INSERT INTO admin_logs ... 'modify_balance' *)
ModifyInsertLog(w) ==
    /\ pc[w] = "insert_log"
    /\ call[w].op = "modify"
    /\ InsertLog(w, LogRow(call[w].admin_id, "modify_balance", "Modified balance by",
                           call[w].user_id, call[w].amount))

-----------------------------------------------------------------------------
(* ban_user and unban_user *)

(* Faulty variant: unban_user copied from ban_user with the status left as it was *)
TargetStatus_CopyPaste(op) == "banned"

TargetStatus(op) == IF op = "ban" THEN "banned" ELSE "active"

(* Faulty variant: the rowcount test written >= 0 *)
RowsMatched_GE(n) == n >= 0

(* if c.rowcount > 0 *)
RowsMatched(n) == n > 0

(* Faulty variant: the UPDATE gated on the status differing,
   WHERE user_id = ? AND status != ? *)
StatusRowcount_Gated(users, uid, target) ==
    IF uid \in DOMAIN users /\ users[uid].status # target THEN 1 ELSE 0

(* The rows the UPDATE users SET status = ... WHERE user_id = ? matches *)
StatusRowcount(users, uid, target) == IF uid \in DOMAIN users THEN 1 ELSE 0

(* UPDATE users SET status = ? WHERE user_id = ?, and the rowcount test.  The
   UPDATE is the transaction's first statement: it waits for the write lock. *)
StatusUpdate(w, op) ==
    /\ pc[w] = "update_status"
    /\ call[w].op = op
    /\ ~LockedByOther(w)
    /\ LET c == call[w]
           img == Image(w)
       IN  IF RowsMatched(StatusRowcount(img.users, c.user_id, TargetStatus(op)))
           THEN /\ ExecWrite(w, [img EXCEPT !.users[c.user_id].status = TargetStatus(op)])
                /\ pc' = [pc EXCEPT ![w] = "insert_log"]
                /\ UNCHANGED <<call, loc, conn, ret, path, applied, initial, ncalls, gc, boot, look, cfg>>
           ELSE RollbackReturnFalse(w, "zero_rows")

BanUpdate(w) == StatusUpdate(w, "ban")

UnbanUpdate(w) == StatusUpdate(w, "unban")

(* INSERT INTO admin_logs ... 'ban_user' *)
BanInsertLog(w) ==
    /\ pc[w] = "insert_log"
    /\ call[w].op = "ban"
    /\ InsertLog(w, LogRow(call[w].admin_id, "ban_user", "User was banned",
                           call[w].user_id, Zero))

(* INSERT INTO admin_logs ... 'unban_user' *)
UnbanInsertLog(w) ==
    /\ pc[w] = "insert_log"
    /\ call[w].op = "unban"
    /\ InsertLog(w, LogRow(call[w].admin_id, "unban_user", "User was unbanned",
                           call[w].user_id, Zero))

-----------------------------------------------------------------------------
(* create_transaction *)

(* get_connection sets no PRAGMA foreign_keys, which is off by default and is a
   setting of the connection: only init_db's own connection enforces them *)
ForeignKeysOn == FALSE

(* Faulty variant: INSERT OR REPLACE, a used id overwrites the row *)
CreateInsert_OrReplace(w) ==
    /\ pc[w] = "insert_tx"
    /\ ~LockedByOther(w)
    /\ LET c == call[w]
           img == Image(w)
       IN  /\ ExecWrite(w, [img EXCEPT !.txs = (c.tx_id :> TxRow(c.user_id, c.amount)) @@ @])
           /\ pc' = [pc EXCEPT ![w] = "commit"]
           /\ UNCHANGED <<call, loc, conn, ret, path, applied, initial, ncalls, gc, boot, look, cfg>>

(* INSERT INTO transactions ... 'pending' *)
CreateInsert(w) ==
    /\ pc[w] = "insert_tx"
    /\ ~LockedByOther(w)
    /\ LET c == call[w]
           img == Image(w)
       IN  IF c.tx_id \in DOMAIN img.txs
              \/ (ForeignKeysOn /\ c.user_id \notin DOMAIN img.users)
           THEN ExceptHandler(w, txn[w] # "none", "duplicate_or_fk")
           ELSE /\ ExecWrite(w, [img EXCEPT !.txs = (c.tx_id :> TxRow(c.user_id, c.amount)) @@ @])
                /\ pc' = [pc EXCEPT ![w] = "commit"]
                /\ UNCHANGED <<call, loc, conn, ret, path, applied, initial, ncalls, gc, boot, look, cfg>>

-----------------------------------------------------------------------------
(* Shared steps *)

(* c.execute("COMMIT"); return True.  The writer's image becomes the committed
   one and every other open read snapshot is now behind it. *)
Commit(w) ==
    /\ pc[w] = "commit"
    /\ IF txn[w] = "none"
       THEN ExceptHandler(w, FALSE, "store_error")
       ELSE /\ db' = Image(w)
            /\ wal' = IF LockedByOther(w) THEN wal ELSE Image(w)
            /\ writer' = writer \ {w}
            /\ txn' = [txn EXCEPT ![w] = "none"]
            /\ stale' = [v \in Workers |->
                            IF v = w THEN FALSE
                            ELSE IF writer = {w} /\ txn[v] = "read" THEN TRUE ELSE stale[v]]
            /\ Return(w, "True", "committed")
            /\ applied' = Append(applied, call[w])
            /\ UNCHANGED <<initial, ncalls, gc, boot, look, cfg>>

WriteStatements == {"update", "insert_history", "insert_log", "update_status", "insert_tx"}

Statements == WriteStatements \cup {"begin", "select", "commit"}

(* A write statement that waits for the write lock gives up when busy_timeout
   expires: sqlite3.OperationalError, database is locked *)
BusyTimeout(w) ==
    /\ pc[w] \in WriteStatements
    /\ txn[w] # "read"
    /\ LockedByOther(w)
    /\ ExceptHandler(w, txn[w] # "none", "busy")

(* Any statement may fail in the store (I/O error, disk full, ...).  After some
   of these errors SQLite has already rolled the transaction back (auto). *)
StoreError(w) ==
    /\ pc[w] \in Statements
    /\ \E auto \in BOOLEAN : ExceptHandler(w, txn[w] # "none" /\ ~auto, "store_error")

-----------------------------------------------------------------------------

Next ==
    \E w \in Workers :
        \/ Call(w)
        \/ GetConnection(w)
        \/ GetConnectionFails(w)
        \/ BeginTransaction(w)
        \/ ModifySelect(w)
        \/ ModifyUpdate(w)
        \/ ModifyInsertHistory(w)
        \/ ModifyInsertLog(w)
        \/ BanUpdate(w)
        \/ UnbanUpdate(w)
        \/ BanInsertLog(w)
        \/ UnbanInsertLog(w)
        \/ CreateInsert(w)
        \/ Commit(w)
        \/ BusyTimeout(w)
        \/ StoreError(w)

Spec == Init /\ [][Next]_vars


-----------------------------------------------------------------------------
(* The scenario of two concurrent balance modifications: one account at balance
   20, one caller crediting 10 and one debiting 10, no store or connection
   failure other than the lock conflicts the two callers cause each other. *)

InitRace ==
    /\ db = [users |-> [u \in ExistingIds |-> UserRow(M(0, 20), "active")],
             history |-> << >>, logs |-> << >>, txs |-> << >>]
    /\ initial = db.users
    /\ wal = db
    /\ writer = {}
    /\ pc = [w \in Workers |-> "idle"]
    /\ call = [w \in Workers |-> NoCall]
    /\ loc = [w \in Workers |-> NoLocals]
    /\ txn = [w \in Workers |-> "none"]
    /\ stale = [w \in Workers |-> FALSE]
    /\ conn = [w \in Workers |-> FALSE]
    /\ ret = [w \in Workers |-> "none"]
    /\ path = [w \in Workers |-> NoPath]
    /\ applied = << >>
    /\ ncalls = 0
    /\ gc = [w \in Workers |-> GcIdle]
    /\ look = NoLookup([u \in ExistingIds |-> <<"a">>])
    /\ cfg = ConfigLoaded
    /\ boot = Booted

RaceAmounts == {M(0, 10), M(0, -10)}

(* Each caller makes one call; the two calls carry the two amounts *)
CallRace(w) ==
    /\ pc[w] = "idle"
    /\ path[w] = NoPath
    /\ \E a \in RaceAmounts :
          /\ \A v \in Workers : call[v].op = "modify" => call[v].amount # a
          /\ call' = [call EXCEPT ![w] = [op |-> "modify", user_id |-> 1001, amount |-> a,
                                          admin_id |-> 1, tx_id |-> None]]
    /\ pc' = [pc EXCEPT ![w] = "connect"]
    /\ ncalls' = ncalls + 1
    /\ UNCHANGED <<db, wal, writer, loc, txn, stale, conn, ret, path, applied, initial, gc, boot, look, cfg>>

NextRace ==
    \E w \in Workers :
        \/ CallRace(w)
        \/ GetConnection(w)
        \/ BeginTransaction(w)
        \/ ModifySelect(w)
        \/ ModifyUpdate(w)
        \/ ModifyInsertHistory(w)
        \/ ModifyInsertLog(w)
        \/ Commit(w)

SpecRace == InitRace /\ [][NextRace]_vars


-----------------------------------------------------------------------------
(* The administrative operations called with and without an administrator id:
   ban_user, unban_user and modify_user_balance on the existing account, with
   admin_id an id or None, and no failure other than the ones the calls cause. *)

NullableAdminArgs == AdminArgs \cup {NullAdmin}

(* A credit, a debit and the amount zero *)
AdminAmounts == RaceAmounts \cup {Zero}

AdminCallArgs ==
    {[op |-> "modify", user_id |-> u, amount |-> a, admin_id |-> ad, tx_id |-> None] :
        u \in ExistingIds, a \in AdminAmounts, ad \in NullableAdminArgs}
    \cup {[op |-> o, user_id |-> u, amount |-> Zero, admin_id |-> ad, tx_id |-> None] :
        o \in {"ban", "unban"}, u \in ExistingIds, ad \in NullableAdminArgs}

CallAdmin(w) ==
    /\ pc[w] = "idle"
    /\ ncalls < MaxCalls
    /\ \E c \in AdminCallArgs : call' = [call EXCEPT ![w] = c]
    /\ pc' = [pc EXCEPT ![w] = "connect"]
    /\ ret' = [ret EXCEPT ![w] = "none"]
    /\ path' = [path EXCEPT ![w] = NoPath]
    /\ ncalls' = ncalls + 1
    /\ UNCHANGED <<db, wal, writer, loc, txn, stale, conn, applied, initial, gc, boot, look, cfg>>

NextAdmin ==
    \E w \in Workers :
        \/ CallAdmin(w)
        \/ GetConnection(w)
        \/ BeginTransaction(w)
        \/ ModifySelect(w)
        \/ ModifyUpdate(w)
        \/ ModifyInsertHistory(w)
        \/ ModifyInsertLog(w)
        \/ BanUpdate(w)
        \/ UnbanUpdate(w)
        \/ BanInsertLog(w)
        \/ UnbanInsertLog(w)
        \/ Commit(w)
        \/ BusyTimeout(w)

SpecAdmin == Init /\ [][NextAdmin]_vars

-----------------------------------------------------------------------------
(* get_connection, statement by statement, under the query operations
   get_total_users and get_total_transaction_volume *)

QueryOps == {"total_users", "volume"}

(* Number of query calls made in all *)
MaxQueries == 2

(* finally: if conn: conn.close() -- every operation has it except
   get_total_transaction_volume *)
ClosesConnection(op) == op # "volume"

CallQuery(w) ==
    /\ pc[w] = "idle"
    /\ ncalls < MaxQueries
    /\ \E o \in QueryOps : call' = [call EXCEPT ![w] = [NoCall EXCEPT !.op = o]]
    /\ pc' = [pc EXCEPT ![w] = "connect"]
    /\ gc' = [gc EXCEPT ![w] = [GcIdle EXCEPT !.st = "try", !.open = gc[w].open]]
    /\ conn' = [conn EXCEPT ![w] = FALSE]
    /\ ret' = [ret EXCEPT ![w] = "none"]
    /\ path' = [path EXCEPT ![w] = NoPath]
    /\ ncalls' = ncalls + 1
    /\ UNCHANGED <<db, wal, writer, loc, txn, stale, applied, initial, boot, look, cfg>>

(* Faulty variant: the last attempt is tested against 5, a value the loop variable
   never takes, so the fifth failure is followed by a wait and the loop ends *)
LastAttempt_OffByOne(i) == i = 5

(* if i == 4 *)
LastAttempt(i) == i = 4

(* except sqlite3.OperationalError: raise on the last attempt, else sleep *)
GcExcept(g, e) ==
    [g EXCEPT !.failed = g.failed + 1,
              !.err = e,
              !.st = IF e = "OperationalError" /\ ~LastAttempt(g.i) THEN "sleep" ELSE "raised"]

(* sqlite3.connect returns a handle *)
GcConnect(w) ==
    /\ pc[w] = "connect"
    /\ gc[w].st = "try"
    /\ gc' = [gc EXCEPT ![w] = [gc[w] EXCEPT !.attempts = gc[w].attempts + 1,
                                             !.open = gc[w].open + 1,
                                             !.st = "pragma"]]
    /\ UNCHANGED <<db, wal, writer, pc, call, loc, txn, stale, conn, ret, path, applied, initial, ncalls, boot, look, cfg>>

(* sqlite3.connect raises OperationalError (unable to open database file) *)
GcConnectFails(w) ==
    /\ pc[w] = "connect"
    /\ gc[w].st = "try"
    /\ gc' = [gc EXCEPT ![w] = GcExcept([gc[w] EXCEPT !.attempts = gc[w].attempts + 1],
                                        "OperationalError")]
    /\ UNCHANGED <<db, wal, writer, pc, call, loc, txn, stale, conn, ret, path, applied, initial, ncalls, boot, look, cfg>>

(* The two PRAGMA statements succeed: return conn *)
GcPragma(w) ==
    /\ pc[w] = "connect"
    /\ gc[w].st = "pragma"
    /\ gc' = [gc EXCEPT ![w] = [gc[w] EXCEPT !.st = "returned"]]
    /\ conn' = [conn EXCEPT ![w] = TRUE]
    /\ pc' = [pc EXCEPT ![w] = "query"]
    /\ UNCHANGED <<db, wal, writer, call, loc, txn, stale, ret, path, applied, initial, ncalls, boot, look, cfg>>

(* A PRAGMA statement raises: OperationalError (database is locked) is handled
   by the loop, any other sqlite3 error (file is not a database) leaves
   get_connection at once.  The handle sqlite3.connect returned is not closed. *)
GcPragmaFails(w) ==
    /\ pc[w] = "connect"
    /\ gc[w].st = "pragma"
    /\ \E e \in {"OperationalError", "DatabaseError"} :
          gc' = [gc EXCEPT ![w] = GcExcept(gc[w], e)]
    /\ UNCHANGED <<db, wal, writer, pc, call, loc, txn, stale, conn, ret, path, applied, initial, ncalls, boot, look, cfg>>

(* time.sleep(1) and the next iteration of for i in range(5); when the range is
   exhausted the function ends without a return statement *)
GcSleep(w) ==
    /\ pc[w] = "connect"
    /\ gc[w].st = "sleep"
    /\ gc' = [gc EXCEPT ![w] = [gc[w] EXCEPT !.sleeps = gc[w].sleeps + 1,
                                             !.i = gc[w].i + 1,
                                             !.st = IF gc[w].i + 1 < Attempts
                                                    THEN "try" ELSE "fell"]]
    /\ UNCHANGED <<db, wal, writer, pc, call, loc, txn, stale, conn, ret, path, applied, initial, ncalls, boot, look, cfg>>

(* get_connection raised: the operation's except block returns the default;
   conn is None, the finally closes nothing *)
QueryNoConnection(w) ==
    /\ pc[w] = "connect"
    /\ gc[w].st \in {"raised", "fell"}
    /\ pc' = [pc EXCEPT ![w] = "idle"]
    /\ ret' = [ret EXCEPT ![w] = "default"]
    /\ path' = [path EXCEPT ![w] = [exit |-> "connect_failed", wrote |-> FALSE]]
    /\ call' = [call EXCEPT ![w] = NoCall]
    /\ UNCHANGED <<db, wal, writer, loc, txn, stale, conn, applied, initial, ncalls, gc, boot, look, cfg>>

(* The SELECT of the query and its return, or its failure and the default
   returned by the except block; then the finally, where there is one *)
QuerySelect(w) ==
    /\ pc[w] = "query"
    /\ \E ok \in BOOLEAN :
          /\ ret' = [ret EXCEPT ![w] = IF ok THEN "value" ELSE "default"]
          /\ path' = [path EXCEPT ![w] = [exit |-> IF ok THEN "returned" ELSE "store_error",
                                          wrote |-> FALSE]]
    /\ pc' = [pc EXCEPT ![w] = "idle"]
    /\ conn' = [conn EXCEPT ![w] = ~ClosesConnection(call[w].op)]
    /\ gc' = [gc EXCEPT ![w] = [gc[w] EXCEPT !.open = IF ClosesConnection(call[w].op)
                                                      THEN gc[w].open - 1 ELSE gc[w].open]]
    /\ call' = [call EXCEPT ![w] = NoCall]
    /\ UNCHANGED <<db, wal, writer, loc, txn, stale, applied, initial, ncalls, boot, look, cfg>>

(* The interpreter finalises the Connection objects nothing refers to any more
   (at once under reference counting, at some later collection otherwise) *)
Reclaim(w) ==
    /\ pc[w] = "idle"
    /\ gc[w].open > 0
    /\ gc' = [gc EXCEPT ![w] = [gc[w] EXCEPT !.open = 0]]
    /\ conn' = [conn EXCEPT ![w] = FALSE]
    /\ UNCHANGED <<db, wal, writer, pc, call, loc, txn, stale, ret, path, applied, initial, ncalls, boot, look, cfg>>

GcStep(w) ==
    GcConnect(w) \/ GcConnectFails(w) \/ GcPragma(w) \/ GcPragmaFails(w) \/ GcSleep(w)

NextAcquire ==
    \E w \in Workers :
        \/ CallQuery(w)
        \/ GcConnect(w)
        \/ GcConnectFails(w)
        \/ GcPragma(w)
        \/ GcPragmaFails(w)
        \/ GcSleep(w)
        \/ QueryNoConnection(w)
        \/ QuerySelect(w)
        \/ Reclaim(w)

(* The queries change no row: one store, no call in progress *)
InitAcquire == InitRace

SpecAcquire == InitAcquire /\ [][NextAcquire]_vars

(* A thread inside get_connection keeps running: connect and the PRAGMAs return
   or raise within their timeout, and time.sleep(1) returns *)
SpecAcquireFair == SpecAcquire /\ \A w \in Workers : WF_vars(GcStep(w))

-----------------------------------------------------------------------------
(* The process start: Database.__new__, Database.__init__ and init_db.

   boot.file / boot.schema: the store file exists / holds the tables;
   boot.backups: the files of backup/, each named by the second it was written
   at (diamond_store_%Y%m%d_%H%M%S.db) and holding the image copied;
   boot.now: the wall clock in seconds;
   boot.instance / boot.initialized: Database._instance is set / its attribute;
   boot.ready: init_db has completed in this process;
   boot.step, entry: position inside init_db and the call that entered it;
   boot.hadFile, backedUp, connBound, connOpen, exc, stmts: what the running
   init_db call found and did, its local conn and the exception in flight;
   boot.failed, result: where the last call failed and how it ended. *)

MaxBoots == 3
MaxClock == 1

EmptyStore ==
    [users |-> [u \in {} |-> UserRow(Zero, "active")],
     history |-> << >>, logs |-> << >>, txs |-> << >>]

(* CREATE TABLE IF NOT EXISTS ...: an existing table keeps its rows *)
CreateTablesIfNotExists(schema, image) == IF schema THEN image ELSE EmptyStore

(* shutil.copy2(DB_PATH, backup_path): the file of that name is written, or
   overwritten when it exists *)
Copy2(backups, at, image) ==
    {b \in backups : b.at # at} \cup {[at |-> at, image |-> image]}

InitBoot ==
    /\ \E file \in BOOLEAN, schema \in BOOLEAN, st \in InitialStatuses :
          /\ schema => file
          /\ db = IF schema
                  THEN [EmptyStore EXCEPT !.users = [u \in ExistingIds |-> UserRow(M(0, 20), st)]]
                  ELSE EmptyStore
          /\ boot = [Booted EXCEPT !.file = file, !.schema = schema, !.instance = FALSE,
                                   !.initialized = FALSE, !.ready = FALSE, !.completed = 0,
                                   !.constructs = 0, !.inits = 0, !.objects = 0]
    /\ initial = db.users
    /\ wal = db
    /\ writer = {}
    /\ pc = [w \in Workers |-> "idle"]
    /\ call = [w \in Workers |-> NoCall]
    /\ loc = [w \in Workers |-> NoLocals]
    /\ txn = [w \in Workers |-> "none"]
    /\ stale = [w \in Workers |-> FALSE]
    /\ conn = [w \in Workers |-> FALSE]
    /\ ret = [w \in Workers |-> "none"]
    /\ path = [w \in Workers |-> NoPath]
    /\ applied = << >>
    /\ ncalls = 0
    /\ gc = [w \in Workers |-> GcIdle]
    /\ look = NoLookup([u \in ExistingIds |-> <<"a">>])
    /\ cfg = ConfigLoaded

BootUnchanged ==
    UNCHANGED <<db, wal, writer, pc, call, loc, txn, stale, conn, ret, path, applied, initial, ncalls, gc, look, cfg>>

(* One more second on the clock *)
Tick ==
    /\ boot.step = "idle"
    /\ boot.now < MaxClock
    /\ boot' = [boot EXCEPT !.now = boot.now + 1]
    /\ BootUnchanged

(* The process ends and a new one starts: the class attribute is None again *)
Restart ==
    /\ boot.step = "idle"
    /\ boot.instance
    /\ boot.nboots < MaxBoots
    /\ boot' = [boot EXCEPT !.instance = FALSE, !.initialized = FALSE, !.ready = FALSE,
                            !.entry = "none", !.result = "none", !.failed = "none",
                            !.constructs = 0, !.inits = 0, !.objects = 0]
    /\ BootUnchanged

(* Entry of init_db: the locals of the call *)
EnterInitDb(b, entry) ==
    [b EXCEPT !.step = "backup", !.entry = entry, !.hadFile = b.file, !.backedUp = FALSE,
              !.connBound = FALSE, !.connOpen = FALSE, !.exc = "none", !.failed = "none",
              !.stmts = 0, !.result = "none", !.nboots = b.nboots + 1]

(* Database.__new__: the instance is created when the class has none *)
New(b) ==
    [b EXCEPT !.constructs = b.constructs + 1,
              !.objects = IF b.instance THEN b.objects ELSE b.objects + 1,
              !.initialized = b.instance /\ b.initialized,
              !.instance = TRUE]

(* Faulty variant: __init__ without the test of self.initialized *)
Construct_Unguarded ==
    /\ boot.step = "idle"
    /\ boot.nboots < MaxBoots
    /\ LET b == New(boot)
       IN  boot' = EnterInitDb([b EXCEPT !.initialized = TRUE, !.inits = b.inits + 1],
                               "construct")
    /\ BootUnchanged

(* Database(): __new__ creates the instance when there is none, __init__ sets
   initialized and then calls init_db when initialized was False *)
Construct ==
    /\ boot.step = "idle"
    /\ boot.nboots < MaxBoots
    /\ LET b == New(boot)
       IN  boot' = IF ~b.initialized
                   THEN EnterInitDb([b EXCEPT !.initialized = TRUE, !.inits = b.inits + 1],
                                    "construct")
                   ELSE [b EXCEPT !.entry = "construct", !.result = "returned",
                                  !.failed = "none", !.nboots = b.nboots + 1]
    /\ BootUnchanged

(* get_database().init_db(): the method called on the existing instance *)
CallInitDb ==
    /\ boot.step = "idle"
    /\ boot.instance
    /\ boot.nboots < MaxBoots
    /\ boot' = EnterInitDb(boot, "init_db")
    /\ BootUnchanged

(* os.makedirs, and the copy of the store file when it exists *)
InitBackup ==
    /\ boot.step = "backup"
    /\ boot' = [boot EXCEPT !.step = "connect",
                            !.backedUp = boot.file,
                            !.backups = IF boot.file
                                        THEN Copy2(boot.backups, boot.now,
                                                   [schema |-> boot.schema, store |-> db])
                                        ELSE boot.backups]
    /\ BootUnchanged

(* os.makedirs or shutil.copy2 raises OSError *)
InitBackupFails ==
    /\ boot.step = "backup"
    /\ boot' = [boot EXCEPT !.step = "finally", !.exc = "OSError",
                            !.failed = IF boot.file THEN "backup" ELSE "makedirs"]
    /\ BootUnchanged

(* conn = self.get_connection(): sqlite3.connect creates the file when absent *)
InitConnect ==
    /\ boot.step = "connect"
    /\ boot' = [boot EXCEPT !.step = "script", !.connBound = TRUE, !.connOpen = TRUE,
                            !.file = TRUE]
    /\ BootUnchanged

(* get_connection raises after its last attempt: conn is not assigned *)
InitConnectFails ==
    /\ boot.step = "connect"
    /\ boot' = [boot EXCEPT !.step = "finally", !.exc = "OperationalError",
                            !.failed = "connect"]
    /\ BootUnchanged

(* c.executescript(CREATE TABLE IF NOT EXISTS ...; CREATE INDEX IF NOT EXISTS ...) *)
InitScript ==
    /\ boot.step = "script"
    /\ boot' = [boot EXCEPT !.step = "commit", !.schema = TRUE, !.stmts = boot.stmts + 1]
    /\ db' = CreateTablesIfNotExists(boot.schema, db)
    /\ wal' = db'
    /\ UNCHANGED <<writer, pc, call, loc, txn, stale, conn, ret, path, applied, initial, ncalls, gc, look, cfg>>

(* conn.cursor() or executescript raises *)
InitScriptFails ==
    /\ boot.step = "script"
    /\ boot' = [boot EXCEPT !.step = "finally", !.exc = "OperationalError",
                            !.failed = "script"]
    /\ BootUnchanged

(* conn.commit() *)
InitCommit ==
    /\ boot.step = "commit"
    /\ boot' = [boot EXCEPT !.step = "finally"]
    /\ BootUnchanged

(* except Exception: log and raise; finally: if conn: conn.close().  The name
   conn is unbound when the failure came before its assignment, and reading it
   raises UnboundLocalError in place of the exception in flight. *)
FinallyResult(b) ==
    IF ~b.connBound THEN "UnboundLocalError"
    ELSE IF b.exc = "none" THEN "returned" ELSE b.exc

InitFinally ==
    /\ boot.step = "finally"
    /\ boot' = [boot EXCEPT !.step = "idle",
                            !.connOpen = FALSE,
                            !.result = FinallyResult(boot),
                            !.ready = boot.ready \/ FinallyResult(boot) = "returned",
                            !.completed = IF FinallyResult(boot) = "returned"
                                          THEN boot.completed + 1 ELSE boot.completed]
    /\ BootUnchanged

NextBoot ==
    \/ Tick
    \/ Restart
    \/ Construct
    \/ CallInitDb
    \/ InitBackup
    \/ InitBackupFails
    \/ InitConnect
    \/ InitConnectFails
    \/ InitScript
    \/ InitScriptFails
    \/ InitCommit
    \/ InitFinally

SpecBoot == InitBoot /\ [][NextBoot]_vars

-----------------------------------------------------------------------------
(* get_user_id_by_username over a users table of two accounts *)

LookupIds == {1001, 1002}

InitLookup ==
    /\ \E h \in Handles :
          /\ LowerStr(h) # <<"b">>
          /\ look = NoLookup([u \in LookupIds |-> IF u = 1001 THEN h ELSE <<"b">>])
    /\ db = [users |-> [u \in ExistingIds |-> UserRow(M(0, 20), "active")],
             history |-> << >>, logs |-> << >>, txs |-> << >>]
    /\ initial = db.users
    /\ wal = db
    /\ writer = {}
    /\ pc = [w \in Workers |-> "idle"]
    /\ call = [w \in Workers |-> NoCall]
    /\ loc = [w \in Workers |-> NoLocals]
    /\ txn = [w \in Workers |-> "none"]
    /\ stale = [w \in Workers |-> FALSE]
    /\ conn = [w \in Workers |-> FALSE]
    /\ ret = [w \in Workers |-> "none"]
    /\ path = [w \in Workers |-> NoPath]
    /\ applied = << >>
    /\ ncalls = 0
    /\ gc = [w \in Workers |-> GcIdle]
    /\ boot = Booted
    /\ cfg = ConfigLoaded

LookupUnchanged ==
    UNCHANGED <<db, wal, writer, pc, call, loc, txn, stale, conn, ret, path, applied, initial, ncalls, gc, boot, cfg>>

(* A caller passes a handle as typed *)
LookupCall ==
    /\ look.step = "idle"
    /\ \E q \in Queries :
          look' = [look EXCEPT !.step = "select", !.arg = q, !.done = FALSE,
                               !.failed = FALSE, !.result = NoUser]
    /\ LookupUnchanged

(* lstrip, SELECT, fetchone, return *)
LookupSelect ==
    /\ look.step = "select"
    /\ look' = [look EXCEPT !.step = "idle", !.done = TRUE,
                            !.result = GetUserIdByUsername(look.names, look.arg)]
    /\ LookupUnchanged

(* get_connection or the SELECT raises: except Exception: return None *)
LookupFails ==
    /\ look.step = "select"
    /\ look' = [look EXCEPT !.step = "idle", !.done = TRUE, !.failed = TRUE,
                            !.result = NoUser]
    /\ LookupUnchanged

NextLookup == LookupCall \/ LookupSelect \/ LookupFails

SpecLookup == InitLookup /\ [][NextLookup]_vars

-----------------------------------------------------------------------------
(* create_transaction over a store that holds a transactions row already, in
   any status of the column's CHECK constraint *)

TerminalStatuses == {"completed", "rejected", "expired"}
TxStatuses == {"pending"} \cup TerminalStatuses

LifecycleTxIds == {"tx-old", "tx-new"}

InitLifecycle ==
    /\ \E s \in TxStatuses :
          db = [users |-> [u \in ExistingIds |-> UserRow(M(0, 20), "active")],
                history |-> << >>, logs |-> << >>,
                txs |-> ("tx-old" :> [TxRow(1001, M(0, 10)) EXCEPT !.status = s])]
    /\ initial = db.users
    /\ wal = db
    /\ writer = {}
    /\ pc = [w \in Workers |-> "idle"]
    /\ call = [w \in Workers |-> NoCall]
    /\ loc = [w \in Workers |-> NoLocals]
    /\ txn = [w \in Workers |-> "none"]
    /\ stale = [w \in Workers |-> FALSE]
    /\ conn = [w \in Workers |-> FALSE]
    /\ ret = [w \in Workers |-> "none"]
    /\ path = [w \in Workers |-> NoPath]
    /\ applied = << >>
    /\ ncalls = 0
    /\ gc = [w \in Workers |-> GcIdle]
    /\ boot = Booted
    /\ look = NoLookup([u \in ExistingIds |-> <<"a">>])
    /\ cfg = ConfigLoaded

CallCreate(w) ==
    /\ pc[w] = "idle"
    /\ ncalls < MaxCalls
    /\ \E t \in LifecycleTxIds, u \in UserArgs :
          call' = [call EXCEPT ![w] = [op |-> "create", user_id |-> u, amount |-> M(0, 10),
                                       admin_id |-> 1, tx_id |-> t]]
    /\ pc' = [pc EXCEPT ![w] = "connect"]
    /\ ret' = [ret EXCEPT ![w] = "none"]
    /\ path' = [path EXCEPT ![w] = NoPath]
    /\ ncalls' = ncalls + 1
    /\ UNCHANGED <<db, wal, writer, loc, txn, stale, conn, applied, initial, gc, boot, look, cfg>>

NextLifecycle ==
    \E w \in Workers :
        \/ CallCreate(w)
        \/ GetConnection(w)
        \/ GetConnectionFails(w)
        \/ BeginTransaction(w)
        \/ CreateInsert(w)
        \/ Commit(w)
        \/ BusyTimeout(w)
        \/ StoreError(w)

SpecLifecycle == InitLifecycle /\ [][NextLifecycle]_vars

-----------------------------------------------------------------------------
(* Config: the update operations and reload_config *)

RateArgs == {Rate(10000, 0, FALSE), Rate(15, 1, FALSE), Rate(15, 1, TRUE), NotANumeral}
NumberFields == {Field("0999", FALSE), Field("0999", TRUE), Blank}
ListArgs == {<< >>} \cup SeqsUpTo(NumberFields, MaxNumbers)
WalletArgs == {Field("TAddr", FALSE), Field("TOther", FALSE)}

InitConfig ==
    /\ \E exists \in BOOLEAN, full \in BOOLEAN :
          /\ full => exists
          /\ LET env == IF full THEN ConfigLoaded.file ELSE [k \in Keys |-> Absent(k)]
             IN  cfg = [ConfigLoaded EXCEPT !.exists = exists, !.file = env, !.env = env,
                                            !.mem = [k \in Keys |-> LoadValue(env, k)]]
    /\ db = [users |-> [u \in ExistingIds |-> UserRow(M(0, 20), "active")],
             history |-> << >>, logs |-> << >>, txs |-> << >>]
    /\ initial = db.users
    /\ wal = db
    /\ writer = {}
    /\ pc = [w \in Workers |-> "idle"]
    /\ call = [w \in Workers |-> NoCall]
    /\ loc = [w \in Workers |-> NoLocals]
    /\ txn = [w \in Workers |-> "none"]
    /\ stale = [w \in Workers |-> FALSE]
    /\ conn = [w \in Workers |-> FALSE]
    /\ ret = [w \in Workers |-> "none"]
    /\ path = [w \in Workers |-> NoPath]
    /\ applied = << >>
    /\ ncalls = 0
    /\ gc = [w \in Workers |-> GcIdle]
    /\ boot = Booted
    /\ look = NoLookup([u \in ExistingIds |-> <<"a">>])

ConfigUnchanged ==
    UNCHANGED <<db, wal, writer, pc, call, loc, txn, stale, conn, ret, path, applied, initial, ncalls, gc, boot, look>>

(* _update_env_variable returning True: the line KEY=value is written to .env,
   replacing the key's line or appended (the file is created when absent), and
   os.environ[KEY] is set *)
UpdateEnvVariable(c, k, t) ==
    [c EXCEPT !.exists = TRUE, !.file[k] = Entry(t), !.env[k] = Entry(t)]

(* The call ended: its name, key and outcome *)
Ended(c, op, k, r) ==
    [c EXCEPT !.last = [op |-> op, key |-> k, result |-> r], !.n = c.n + 1]

(* update_usd_rate / update_usdt_rate.  _update_env_variable returns False when
   the file cannot be read or written; Decimal(new_rate) on a text that is no
   numeral raises decimal.InvalidOperation, an ArithmeticError, which the
   except (ValueError, TypeError) clause does not catch. *)
UpdateRate ==
    /\ cfg.n < MaxUpdates
    /\ \E k \in RateKeys, t \in RateArgs, written \in BOOLEAN :
          cfg' = IF ~written THEN Ended(cfg, "update_rate", k, "False")
                 ELSE LET c == UpdateEnvVariable(cfg, k, t)
                      IN  IF t.valid
                          THEN Ended([c EXCEPT !.mem[k] = DecimalOf(t)], "update_rate", k, "True")
                          ELSE Ended(c, "update_rate", k, "raised")
    /\ ConfigUnchanged

(* update_syriatel_numbers: the stripped non-empty numbers are written and kept *)
UpdateSyriatel ==
    /\ cfg.n < MaxUpdates
    /\ \E numbers \in ListArgs, written \in BOOLEAN :
          LET k == "SYRIATEL_CASH_NUMBERS"
              kept == NonBlank(StripAll(numbers))
          IN  cfg' = IF ~written THEN Ended(cfg, "update_numbers", k, "False")
                     ELSE Ended([UpdateEnvVariable(cfg, k, Join(kept)) EXCEPT !.mem[k] = kept],
                                "update_numbers", k, "True")
    /\ ConfigUnchanged

(* update_mtn_numbers / update_shamcash_numbers: the stripped non-empty numbers
   are written, the list passed in is kept *)
UpdateRawNumbers(k) ==
    /\ cfg.n < MaxUpdates
    /\ \E numbers \in ListArgs, written \in BOOLEAN :
          cfg' = IF ~written THEN Ended(cfg, "update_numbers", k, "False")
                 ELSE Ended([UpdateEnvVariable(cfg, k, Join(NonBlank(StripAll(numbers))))
                                EXCEPT !.mem[k] = numbers],
                            "update_numbers", k, "True")
    /\ ConfigUnchanged

UpdateMtn == UpdateRawNumbers("MTN_CASH_NUMBERS")

UpdateShamcash == UpdateRawNumbers("SHAMCASH_NUMBERS")

(* update_usdt_wallets with the key coinex *)
UpdateWallets ==
    /\ cfg.n < MaxUpdates
    /\ \E t \in WalletArgs, written \in BOOLEAN :
          LET k == "USDT_WALLET_COINEX"
          IN  cfg' = IF ~written THEN Ended(cfg, "update_wallets", k, "False")
                     ELSE Ended([UpdateEnvVariable(cfg, k, t) EXCEPT !.mem[k] = Entry(t)],
                                "update_wallets", k, "True")
    /\ ConfigUnchanged

(* reload_config: load_dotenv(override=True), then _load_env_vars; an exception
   of a Decimal(...) ends the assignments and False is returned *)
ReloadConfig ==
    /\ cfg.n < MaxUpdates
    /\ LET env == LoadDotenv(cfg)
       IN  cfg' = Ended([cfg EXCEPT !.env = env, !.mem = LoadEnvVars(cfg.mem, env)],
                        "reload", "none",
                        IF FirstRaise(env) > Len(LoadOrder) THEN "True" ELSE "False")
    /\ ConfigUnchanged

NextConfig ==
    \/ UpdateRate
    \/ UpdateSyriatel
    \/ UpdateMtn
    \/ UpdateShamcash
    \/ UpdateWallets
    \/ ReloadConfig

SpecConfig == InitConfig /\ [][NextConfig]_vars

-----------------------------------------------------------------------------
(* Vocabulary of the properties *)

BelowZero(m) == m.hi < 0 \/ (m.hi = 0 /\ m.lo < 0)

Last(s) == s[Len(s)]

(* The applied (returned True) calls of one operation on account u, in order *)
AppliedOn(u) ==
    LET OnU(c) == c.user_id = u /\ c.op \in {"modify", "ban", "unban"}
    IN  SelectSeq(applied, OnU)

AppliedModifyOn(u) ==
    LET ModU(c) == c.user_id = u /\ c.op = "modify"
    IN  SelectSeq(applied, ModU)

RECURSIVE SumAmounts(_)
SumAmounts(s) == IF s = << >> THEN Zero ELSE Add(s[1].amount, SumAmounts(Tail(s)))

HistoryOf(u) ==
    LET OfU(h) == h.user_id = u
    IN  SelectSeq(db.history, OfU)

LogsOf(u) ==
    LET OfU(l) == l.target_user_id = u
    IN  SelectSeq(db.logs, OfU)

AllIdle == \A w \in Workers : pc[w] = "idle"

-----------------------------------------------------------------------------
(* C1: for every account, the balance equals the initial balance plus the sum
   of the signed amounts of the modify_user_balance calls that returned True,
   and the account has one balance_history row per such call. *)
C1_BalanceIsInitialPlusApplied ==
    \A u \in ExistingIds :
        /\ db.users[u].balance = Add(initial[u].balance, SumAmounts(AppliedModifyOn(u)))
        /\ Len(HistoryOf(u)) = Len(AppliedModifyOn(u))

(* The second half of C1 alone: one balance_history row per applied call *)
HistoryCountMatchesApplied ==
    \A u \in ExistingIds : Len(HistoryOf(u)) = Len(AppliedModifyOn(u))

(* C2: when modify_user_balance reads a balance with old + delta < 0, the call
   returns False in that step and the store (balance, history, every table) is
   as before. *)
C2_RejectedWhenNegative ==
    [][\A w \in Workers :
          (/\ ModifySelect(w)
           /\ call[w].user_id \in DOMAIN db.users
           /\ BelowZero(Add(db.users[call[w].user_id].balance, call[w].amount)))
          => (/\ ret'[w] = "False"
              /\ pc'[w] = "idle"
              /\ db' = db
              /\ wal' = wal)]_vars

C2_Witness ==
    \E w \in Workers : pc[w] = "idle" /\ path[w].exit = "insufficient" /\ ret[w] = "False"

(* C3: in every reachable state every account's balance is non-negative, in the
   committed store and in the image of a transaction that has not committed. *)
C3_BalanceNonNegative ==
    \A u \in ExistingIds :
        /\ ~BelowZero(db.users[u].balance)
        /\ ~BelowZero(wal.users[u].balance)

C3_Witness ==
    \E u \in ExistingIds :
        /\ db.users[u].balance = Zero
        /\ \E i \in DOMAIN applied :
              applied[i].op = "modify" /\ applied[i].user_id = u /\ BelowZero(applied[i].amount)

(* C4: two concurrent modify_user_balance calls on one account, +10 and -10 from
   balance 20, end with balance 20 under every interleaving. *)
C4_SerializeTo20 ==
    (\A w \in Workers : pc[w] = "idle" /\ path[w].exit # "none")
        => \A u \in ExistingIds : db.users[u].balance = M(0, 20)

(* C5: under any interleaving no update is lost: every applied call computed its
   new balance from the balance the previous applied call wrote, so the balance
   equals the initial balance plus the sum of the deltas of the applied calls. *)
C5_NoLostUpdate ==
    \A u \in ExistingIds :
        LET h == HistoryOf(u)
        IN  /\ \A i \in 1..Len(h) :
                  h[i].old_balance = IF i = 1 THEN initial[u].balance ELSE h[i - 1].new_balance
            /\ AllIdle =>
                  db.users[u].balance = Add(initial[u].balance, SumAmounts(AppliedModifyOn(u)))

(* The first half of C5 alone: no applied call started from a stale balance *)
NoStaleRead ==
    \A u \in ExistingIds :
        LET h == HistoryOf(u)
        IN  \A i \in 1..Len(h) :
                /\ h[i].old_balance = IF i = 1 THEN initial[u].balance ELSE h[i - 1].new_balance
                /\ i = Len(h) => h[i].new_balance = db.users[u].balance


(* C6: no ledger operation partially applies.  The committed store changes only
   in the step in which an operation commits and returns True, and then all of
   the operation's rows appear together: for modify_user_balance the new
   balance, one balance_history row and one admin_logs row; for ban_user and
   unban_user the status and one admin_logs row; for create_transaction the
   one transactions row.  A step in which an operation fails leaves the
   committed store as it was. *)
C6_AllOrNothing ==
    [][/\ db' # db =>
            \E w \in Workers :
                LET c == call[w] IN
                /\ pc[w] = "commit" /\ pc'[w] = "idle" /\ ret'[w] = "True"
                /\ c.op = "modify" =>
                      /\ db'.history = Append(db.history, Last(db'.history))
                      /\ Last(db'.history).user_id = c.user_id
                      /\ db'.users[c.user_id].balance = Last(db'.history).new_balance
                      /\ db'.logs = Append(db.logs, Last(db'.logs))
                      /\ Last(db'.logs).action = "modify_balance"
                      /\ Last(db'.logs).target_user_id = c.user_id
                      /\ db'.txs = db.txs
                /\ c.op \in {"ban", "unban"} =>
                      /\ db'.users[c.user_id].status = IF c.op = "ban" THEN "banned" ELSE "active"
                      /\ db'.logs = Append(db.logs, Last(db'.logs))
                      /\ Last(db'.logs).action = IF c.op = "ban" THEN "ban_user" ELSE "unban_user"
                      /\ Last(db'.logs).target_user_id = c.user_id
                      /\ db'.history = db.history
                      /\ db'.txs = db.txs
                /\ c.op = "create" =>
                      /\ c.tx_id \in DOMAIN db'.txs
                      /\ db'.users = db.users
                      /\ db'.history = db.history
                      /\ db'.logs = db.logs
       /\ \A w \in Workers :
            (pc[w] # "idle" /\ pc'[w] = "idle" /\ ret'[w] # "True") => db' = db]_vars

(* An operation has failed after it wrote: its balance update and history row
   were in its uncommitted image only, and the committed store shows neither *)
C6_Witness ==
    \E w \in Workers :
        /\ pc[w] = "idle"
        /\ path[w].exit = "store_error"
        /\ path[w].wrote
        /\ ret[w] = "False"
        /\ db.history = << >>
        /\ db.logs = << >>
        /\ db.txs = << >>
        /\ db.users = initial

(* C7: create_transaction with an id that exists fails: it returns False and
   no row is created or changed.  A create_transaction that returns True had a
   fresh id and creates exactly one row, with that id and status pending, and
   changes no other row.  Nothing else changes the transactions table. *)
C7_CreateTransaction ==
    [][/\ \A w \in Workers :
            /\ (CreateInsert(w) /\ call[w].tx_id \in DOMAIN db.txs)
                  => (ret'[w] = "False" /\ pc'[w] = "idle" /\ db' = db /\ wal' = db)
            /\ (Commit(w) /\ call[w].op = "create")
                  => LET c == call[w] IN
                     /\ ret'[w] = "True"
                     /\ c.tx_id \notin DOMAIN db.txs
                     /\ DOMAIN db'.txs = DOMAIN db.txs \cup {c.tx_id}
                     /\ db'.txs[c.tx_id].status = "pending"
                     /\ db'.txs[c.tx_id].user_id = c.user_id
                     /\ \A t \in DOMAIN db.txs : db'.txs[t] = db.txs[t]
       /\ db'.txs # db.txs => \E w \in Workers : Commit(w) /\ call[w].op = "create"]_vars

C7_Witness ==
    \E w \in Workers :
        /\ pc[w] = "idle"
        /\ path[w].exit = "duplicate_or_fk"
        /\ ret[w] = "False"
        /\ Cardinality(DOMAIN db.txs) = 1
        /\ \A t \in DOMAIN db.txs : db.txs[t].status = "pending"
        /\ Len(SelectSeq(applied, LAMBDA c : c.op = "create")) = 1

(* C8: when the applied calls on an account are a ban followed by an unban, the
   account's status is active and the admin_logs rows that target it are
   exactly two, the ban_user row before the unban_user row. *)
C8_BanThenUnban ==
    \A u \in ExistingIds :
        LET a == AppliedOn(u)
            l == LogsOf(u)
        IN  (Len(a) = 2 /\ a[1].op = "ban" /\ a[2].op = "unban")
                => /\ db.users[u].status = "active"
                   /\ Len(l) = 2
                   /\ l[1].action = "ban_user"
                   /\ l[2].action = "unban_user"

C8_Witness ==
    \E u \in ExistingIds :
        LET a == AppliedOn(u)
        IN  /\ Len(a) = 2 /\ a[1].op = "ban" /\ a[2].op = "unban"
            /\ db.users[u].status = "active"
            /\ Len(LogsOf(u)) = 2

(* C9 as stated: only a ban_user or unban_user call that changes the status
   inserts an admin_logs row (a call on an account already in the target
   status inserts none). *)
C9_GatedOnStatus ==
    [][(/\ Len(db'.logs) = Len(db.logs) + 1
        /\ Last(db'.logs).action \in {"ban_user", "unban_user"})
           => LET u == Last(db'.logs).target_user_id
              IN  db'.users[u].status # db.users[u].status]_vars

(* C9 amended: ban_user (unban_user) updates the row with the given id whatever
   its current status.  On an existing account, the account already in the
   target status included, the UPDATE matches one row and the call goes on to
   insert its admin_logs row; when it then returns True the status is the
   target status and exactly one admin_logs row was added.  Only on an id that
   does not exist the UPDATE matches zero rows, and the call returns False and
   inserts no row. *)
C9_GatedOnExistence ==
    [][\A w \in Workers :
          LET c == call[w] IN
          /\ (BanUpdate(w) \/ UnbanUpdate(w)) =>
                IF c.user_id \in DOMAIN db.users
                THEN /\ pc'[w] = "insert_log"
                     /\ wal'.users[c.user_id].status = IF c.op = "ban" THEN "banned" ELSE "active"
                ELSE /\ ret'[w] = "False" /\ pc'[w] = "idle"
                     /\ db' = db /\ wal' = db
          /\ (Commit(w) /\ c.op \in {"ban", "unban"}) =>
                /\ ret'[w] = "True"
                /\ db'.users[c.user_id].status = IF c.op = "ban" THEN "banned" ELSE "active"
                /\ Len(db'.logs) = Len(db.logs) + 1
                /\ Last(db'.logs).target_user_id = c.user_id]_vars

(* A ban was applied to an account that was banned already, and logged *)
C9_Witness ==
    \E u \in ExistingIds :
        /\ initial[u].status = "banned"
        /\ Len(AppliedOn(u)) = 1
        /\ AppliedOn(u)[1].op = "ban"
        /\ Len(LogsOf(u)) = 1
        /\ db.users[u].status = "banned"

(* C10: ban_user, unban_user and modify_user_balance on an id that does not
   exist return False at their lookup and leave every table as it was; no call
   on such an id returns True, and no users, balance_history or admin_logs row
   ever refers to it. *)
C10_MissingAccount ==
    [][/\ \A w \in Workers :
            call[w].user_id \notin DOMAIN db.users =>
                /\ (ModifySelect(w) \/ BanUpdate(w) \/ UnbanUpdate(w))
                      => (ret'[w] = "False" /\ pc'[w] = "idle" /\ db' = db /\ wal' = wal)
                /\ (call[w].op \in {"modify", "ban", "unban"} /\ pc[w] # "idle")
                      => ret'[w] # "True"
       /\ DOMAIN db'.users = ExistingIds
       /\ \A i \in DOMAIN db'.history : db'.history[i].user_id \in ExistingIds
       /\ \A i \in DOMAIN db'.logs : db'.logs[i].target_user_id \in ExistingIds]_vars

C10_Witness ==
    /\ \E w \in Workers : pc[w] = "idle" /\ path[w].exit = "not_found" /\ ret[w] = "False"
    /\ \E w \in Workers : pc[w] = "idle" /\ path[w].exit = "zero_rows" /\ ret[w] = "False"
    /\ db.history = << >>
    /\ db.logs = << >>
    /\ db.users = initial

(* C11: no ledger operation raises to its caller: every failure (of the
   connection, of a statement, of COMMIT, or of the handler's own ROLLBACK) ends
   in a returned value, so no call ever ends with an exception. *)
C11_NoOperationThrows ==
    \A w \in Workers : ret[w] # "raised"

(* C12: every operation closes the connection it acquired on every exit path,
   and no handle opened by a failed attempt of get_connection stays open: the
   only open handle of a caller is the one its running call holds. *)
C12_ConnectionsReleased ==
    \A w \in Workers :
        /\ pc[w] = "idle" => ~conn[w]
        /\ gc[w].open = IF gc[w].st = "pragma" \/ pc[w] = "query" THEN 1 ELSE 0

(* C12, the part that holds: the ledger operations and get_total_users close
   their connection on every exit path *)
ClosingOperationsRelease ==
    [][\A w \in Workers :
          (pc[w] # "idle" /\ pc'[w] = "idle" /\ ClosesConnection(call[w].op)) => ~conn'[w]]_vars

(* C13: get_connection makes at most 5 attempts and waits once between two
   consecutive attempts (at most 4 waits); it returns the handle of the first
   attempt that succeeds, raises the error of the fifth attempt when that one
   fails too, never ends with neither, and always ends. *)
C13_BoundedRetry ==
    /\ [](\A w \in Workers :
            LET g == gc[w] IN
            /\ g.attempts <= Attempts
            /\ g.sleeps <= Attempts - 1
            /\ g.st # "fell"
            /\ g.st = "try" => (g.failed = g.attempts /\ g.sleeps = g.attempts)
            /\ g.st \in {"pragma", "returned"} =>
                  (g.failed = g.attempts - 1 /\ g.sleeps = g.attempts - 1)
            /\ g.st = "sleep" => (g.failed = g.attempts /\ g.attempts < Attempts)
            /\ g.st = "raised" =>
                  /\ g.failed = g.attempts /\ g.sleeps = g.attempts - 1
                  /\ g.err = "OperationalError" => g.attempts = Attempts)
    /\ \A w \in Workers : (gc[w].st = "try") ~> (gc[w].st \in {"returned", "raised"})

(* A call got its connection from the fifth attempt after four waits, and
   another call saw get_connection raise after five failed attempts *)
C13_Witness ==
    \E w, v \in Workers :
        /\ gc[w].st = "returned" /\ gc[w].attempts = 5 /\ gc[w].sleeps = 4
        /\ gc[v].st = "raised" /\ gc[v].attempts = 5 /\ gc[v].failed = 5

(* C14: initializing the schema a second time, after an initialization that
   completed, changes no row of the store, and the backup it makes of the
   existing store file is a new file of backup/, which leaves every earlier
   backup file in place. *)
C14_SecondInitIdempotentNewBackup ==
    [][boot.completed >= 1 =>
          /\ InitScript => db' = db
          /\ (InitBackup /\ boot.file) =>
                /\ boot.backups \subseteq boot'.backups
                /\ Cardinality(boot'.backups) = Cardinality(boot.backups) + 1]_vars

(* C14, the part that holds: no initialization changes a row of a store that
   has its tables, and a second initialization ends without error when nothing
   outside it fails *)
IdempotentSchema ==
    [][/\ (InitScript /\ boot.schema) => (db' = db /\ boot'.schema)
       /\ (InitFinally /\ boot.exc = "none") => boot'.result = "returned"]_vars

(* C15: when the store file exists, its backup is made before the connection
   is opened and before any schema statement runs; when the backup fails, the
   initialization ends there: no connection, no schema statement, and the
   caller gets the failure of the backup. *)
C15_BackupFirstFailurePropagated ==
    /\ (boot.hadFile /\ (boot.connBound \/ boot.stmts > 0)) => boot.backedUp
    /\ (boot.step = "idle" /\ boot.failed = "backup") =>
          /\ ~boot.connBound /\ boot.stmts = 0
          /\ boot.result = "OSError"

(* C15, the part that holds: the backup comes first, a failed backup ends the
   initialization with no connection and no schema statement, and the call
   ends with an exception *)
BackupFirstAndAborts ==
    /\ (boot.hadFile /\ (boot.connBound \/ boot.stmts > 0)) => boot.backedUp
    /\ (boot.step = "idle" /\ boot.failed = "backup") =>
          /\ ~boot.connBound /\ boot.stmts = 0
          /\ boot.result \notin {"none", "returned"}

(* C16: whenever Database() returns normally, the first time or any later
   time in the process, init_db has completed successfully in that process. *)
C16_ConstructedMeansInitialized ==
    (boot.step = "idle" /\ boot.entry = "construct" /\ boot.result = "returned")
        => boot.ready

(* C17: create_transaction for an account that does not exist is refused by
   the foreign key: it returns False and inserts no row, so every transactions
   row refers to an existing account. *)
C17_TransactionsReferToAccounts ==
    /\ \A t \in DOMAIN db.txs : db.txs[t].user_id \in DOMAIN db.users
    /\ \A i \in DOMAIN applied :
          applied[i].op = "create" => applied[i].user_id \in DOMAIN db.users

(* C18: the balance_history rows of an account form a chain: each row has
   new_balance = old_balance + change_amount, the first old_balance is the
   initial balance, each later old_balance is the new_balance of the row
   before, and the last new_balance is the current balance. *)
C18_HistoryChain ==
    \A u \in ExistingIds :
        LET h == HistoryOf(u)
        IN  \A i \in 1..Len(h) :
                /\ h[i].new_balance = Add(h[i].old_balance, h[i].change_amount)
                /\ h[i].old_balance = IF i = 1 THEN initial[u].balance ELSE h[i - 1].new_balance
                /\ i = Len(h) => h[i].new_balance = db.users[u].balance

(* C19: the audit rows are immutable and append-only: a balance_history or
   admin_logs row that exists in one state exists, at the same position and
   with the same values, in every later state. *)
C19_AuditAppendOnly ==
    [][/\ \A i \in DOMAIN db.history :
             i \in DOMAIN db'.history /\ db'.history[i] = db.history[i]
       /\ \A i \in DOMAIN db.logs :
             i \in DOMAIN db'.logs /\ db'.logs[i] = db.logs[i]]_vars

(* Two balance changes and a ban were applied one after the other: each added
   its rows after the rows that were there *)
C19_Witness ==
    /\ Len(db.history) = 2
    /\ Len(db.logs) = 3
    /\ Last(db.logs).action = "ban_user"
    /\ Len(applied) = 3

(* C20: every admin_logs row has a non-null admin_id, and a ban_user,
   unban_user or modify_user_balance call made with admin_id None is not
   applied: no step of it changes the committed store, it returns False, and
   what it wrote inside its transaction (status, balance, history row) is
   rolled back. *)
C20_NullAdminNotApplied ==
    [][/\ \A i \in DOMAIN db'.logs : db'.logs[i].admin_id # NullAdmin
       /\ \A i \in DOMAIN wal'.logs : wal'.logs[i].admin_id # NullAdmin
       /\ \A w \in Workers :
             (call[w].admin_id = NullAdmin /\ pc[w] # "idle" /\ pc'[w] # pc[w]) =>
                 /\ db' = db
                 /\ pc'[w] = "idle" =>
                       /\ ret'[w] = "False"
                       /\ writer = {w} => (wal' = db /\ writer' = {})]_vars

(* A call without administrator id wrote inside its transaction, failed on the
   admin_logs insert and returned False; the store is as it was at the start *)
C20_Witness ==
    \E w \in Workers :
        /\ pc[w] = "idle" /\ ret[w] = "False"
        /\ path[w].exit = "integrity" /\ path[w].wrote
        /\ writer = {}
        /\ db.users = initial /\ wal = db
        /\ db.history = << >> /\ db.logs = << >>

(* C21: a lock timeout or busy error inside a modify_user_balance transaction
   rolls the transaction back, leaves the store unchanged, is not retried, and
   reaches the caller as an outcome different from the one of the not-found
   and insufficient-balance rejections. *)
C21_TransientDistinguishable ==
    [][\A w, v \in Workers :
          (/\ call[w].op = "modify" /\ pc[w] # "idle"
           /\ pc'[w] = "idle" /\ path'[w].exit = "busy"
           /\ pc[v] = "idle" /\ path[v].exit \in {"not_found", "insufficient"})
              => ret'[w] # ret[v]]_vars

(* C21, the part that holds: the step at which a balance change meets the lock
   conflict ends the call (no retry), changes no committed row and leaves no
   write lock and no uncommitted write of the caller behind *)
TransientAborts ==
    [][\A w \in Workers :
          (call[w].op = "modify" /\ pc[w] # "idle" /\ pc'[w] = "idle" /\ path'[w].exit = "busy")
              => /\ db' = db
                 /\ w \notin writer'
                 /\ writer = {w} => wal' = db
                 /\ txn'[w] = "none"
                 /\ ret'[w] \in {"False", "raised"}]_vars

(* C22: the lookup by handle is normalized on the @ prefix and on letter case:
   for a stored handle h, the arguments h, @h and every letter-case variant of
   either return the id of h's account. *)
C22_LookupNormalized ==
    (look.done /\ ~look.failed) =>
        \A u \in DOMAIN look.names :
            LET bare == IF Head(look.arg) = At THEN Tail(look.arg) ELSE look.arg
            IN  LowerStr(bare) = LowerStr(look.names[u]) => look.result = u

(* C22, the part that holds: the handle as stored, with or without leading @,
   returns the id of its account, and an argument that matches no handle
   returns None *)
AtPrefixNormalized ==
    (look.done /\ ~look.failed) =>
        /\ \A u \in DOMAIN look.names :
              (look.arg = look.names[u] \/ look.arg = <<At>> \o look.names[u])
                  => look.result = u
        /\ look.result # NoUser =>
              (look.result \in DOMAIN look.names
               /\ look.names[look.result] = Lstrip(look.arg))

(* C23: the amount of a transactions row created by create_transaction reads
   back as the decimal that was passed in, with no floating-point rounding. *)
C23_AmountRoundTrips ==
    \A i \in DOMAIN applied :
        applied[i].op = "create" =>
            DecimalOfReal(db.txs[applied[i].tx_id].amount) = applied[i].amount

(* C23, the part that holds: an amount that an IEEE double represents exactly
   reads back as passed in *)
RepresentableAmountRoundTrips ==
    \A i \in DOMAIN applied :
        (applied[i].op = "create" /\ ToReal(applied[i].amount) = applied[i].amount) =>
            DecimalOfReal(db.txs[applied[i].tx_id].amount) = applied[i].amount

(* C24: every applied modify_user_balance call inserts exactly one
   balance_history row, which carries the admin id and the signed amount of the
   call and the kind credit when the amount is above zero and debit otherwise
   (the amount zero included), and exactly one admin_logs row with action
   modify_balance that targets the account. *)
C24_ModifyRecords ==
    [][\A w \in Workers :
          (Commit(w) /\ call[w].op = "modify") =>
              LET c == call[w] IN
              /\ Len(db'.history) = Len(db.history) + 1
              /\ Last(db'.history).user_id = c.user_id
              /\ Last(db'.history).admin_id = c.admin_id
              /\ Last(db'.history).change_amount = c.amount
              /\ Last(db'.history).transaction_type =
                    IF ~IsNegative(c.amount) /\ c.amount # Zero THEN "credit" ELSE "debit"
              /\ Len(db'.logs) = Len(db.logs) + 1
              /\ Last(db'.logs).action = "modify_balance"
              /\ Last(db'.logs).target_user_id = c.user_id
              /\ Last(db'.logs).admin_id = c.admin_id]_vars

(* C24, the part that holds: one history row and one log row per applied call,
   with the admin id, the kind by the sign of the amount passed in and the
   amount as the REAL column holds it *)
ModifyRecordsAsStored ==
    [][\A w \in Workers :
          (Commit(w) /\ call[w].op = "modify") =>
              LET c == call[w] IN
              /\ Len(db'.history) = Len(db.history) + 1
              /\ Last(db'.history).user_id = c.user_id
              /\ Last(db'.history).admin_id = c.admin_id
              /\ Last(db'.history).change_amount = ToReal(c.amount)
              /\ Last(db'.history).transaction_type =
                    IF ~IsNegative(c.amount) /\ c.amount # Zero THEN "credit" ELSE "debit"
              /\ Len(db'.logs) = Len(db.logs) + 1
              /\ Last(db'.logs).action = "modify_balance"
              /\ Last(db'.logs).target_user_id = c.user_id
              /\ Last(db'.logs).admin_id = c.admin_id]_vars

(* The amount zero was applied and recorded as a debit *)
ZeroAmountIsDebit ==
    \E i \in DOMAIN db.history :
        db.history[i].change_amount = Zero /\ db.history[i].transaction_type = "debit"

(* C25: in one process, however many times Database() is called, there is one
   instance, and init_db (and with it the backup) is entered from a
   construction at most once. *)
C25_InitOncePerProcess ==
    /\ boot.inits <= 1
    /\ boot.objects <= 1
    /\ boot.constructs >= 1 => (boot.objects = 1 /\ boot.inits = 1 /\ boot.instance)

(* Database() was called three times in one process: init_db ran once, and
   the later calls returned the instance *)
C25_Witness ==
    /\ boot.constructs = 3
    /\ boot.inits = 1
    /\ boot.objects = 1
    /\ boot.ready
    /\ boot.step = "idle" /\ boot.entry = "construct" /\ boot.result = "returned"

(* C26: every transactions row is created with status pending, and a row in a
   terminal status (completed, rejected, expired) keeps that status whatever
   operations run afterwards. *)
C26_TerminalIsFinal ==
    [][/\ \A t \in DOMAIN db.txs :
             /\ t \in DOMAIN db'.txs
             /\ db.txs[t].status \in TerminalStatuses => db'.txs[t].status = db.txs[t].status
       /\ \A t \in DOMAIN db'.txs \ DOMAIN db.txs : db'.txs[t].status = "pending"
       /\ \A t \in DOMAIN wal'.txs \ DOMAIN db.txs : wal'.txs[t].status = "pending"]_vars

(* A create_transaction with the id of a row in a terminal status was refused,
   another one created its row as pending, and the old row is as it was *)
C26_Witness ==
    /\ db.txs["tx-old"].status \in TerminalStatuses
    /\ "tx-new" \in DOMAIN db.txs /\ db.txs["tx-new"].status = "pending"
    /\ \E w \in Workers :
          pc[w] = "idle" /\ path[w].exit = "duplicate_or_fk" /\ ret[w] = "False"

(* C27: after an update operation of Config returned True, the attribute of
   the updated key equals the value reload_config would load for that key
   from the .env file, so that a reload does not change it. *)
C27_ConfigMatchesFile ==
    (cfg.last.result = "True" /\ cfg.last.op # "reload") =>
        LET k == cfg.last.key
        IN  SameValue(k, cfg.mem[k], LoadValue(LoadDotenv(cfg), k))

(* C27, the part that holds: the rates and the Syriatel numbers *)
RatesAndSyriatelMatchFile ==
    (cfg.last.result = "True" /\ cfg.last.key \in RateKeys \cup {"SYRIATEL_CASH_NUMBERS"}) =>
        LET k == cfg.last.key
        IN  SameValue(k, cfg.mem[k], LoadValue(LoadDotenv(cfg), k))

(* C28: update_usd_rate / update_usdt_rate never raises and is all-or-nothing:
   it returns True with the new rate both in the .env file and in the
   attribute, or False with the file and the attribute as they were. *)
C28_RateUpdateAllOrNothing ==
    [][(cfg'.n = cfg.n + 1 /\ cfg'.last.op = "update_rate") =>
          LET k == cfg'.last.key IN
          \/ /\ cfg'.last.result = "True"
             /\ cfg'.file[k].present /\ cfg'.file[k].text.valid
             /\ DecimalEq(DecimalOf(cfg'.file[k].text), cfg'.mem[k])
          \/ /\ cfg'.last.result = "False"
             /\ cfg'.exists = cfg.exists
             /\ cfg'.file = cfg.file
             /\ cfg'.env = cfg.env
             /\ cfg'.mem = cfg.mem]_vars

(* C28, the part that holds: a rate update is all-or-nothing whenever the file
   holds a numeral after it, that is, whenever the text passed in is a numeral *)
NumeralRateUpdateAllOrNothing ==
    [][(/\ cfg'.n = cfg.n + 1 /\ cfg'.last.op = "update_rate"
        /\ cfg'.file[cfg'.last.key].text.valid) =>
          LET k == cfg'.last.key IN
          \/ /\ cfg'.last.result = "True"
             /\ cfg'.file[k].present
             /\ DecimalEq(DecimalOf(cfg'.file[k].text), cfg'.mem[k])
          \/ /\ cfg'.last.result = "False"
             /\ cfg'.file = cfg.file
             /\ cfg'.mem = cfg.mem]_vars

=============================================================================
